---------------------------- MODULE Spec2Model ----------------------------
(***************************************************************************)
(* Urban Sight backend: the safety scoring and route evaluation pipeline   *)
(* (backend/engine.py, backend/personalization.py, backend/main.py).       *)
(*                                                                         *)
(* Numbers.  The program computes with binary floating point.  The model   *)
(* computes with exact decimal fixed point: a score s is the integer       *)
(* s * ONE.  ONE = 15 000 000 makes every value the program can derive     *)
(* from a raw score on the 0.1 grid an integer: the seven personalization  *)
(* rules need 10^7, the route aggregates (a mean of three, times 1.05; a   *)
(* mean of five, times 0.88 or 0.95) of scores with four decimals need     *)
(* 1.5 * 10^7.  All products stay below 2^31.                              *)
(***************************************************************************)
EXTENDS Integers, Sequences, FiniteSets

ONE == 15 * 1000000

\* n/d as a fixed-point number (0.4 is Dec(4, 10)).
Dec(n, d) == (ONE * n) \div d

\* s * (n/d): the product of a fixed-point number with the decimal literal n/d.
Times(s, n, d) == (s * n) \div d

MinOf(a, b) == IF a < b THEN a ELSE b

MaxOf(a, b) == IF a > b THEN a ELSE b

\* One unit of the fourth decimal place.
Tick == ONE \div 10000

\* round(x, 4), round(x): the values the program can return.  Python rounds the binary
\* double correctly to the nearest multiple of 0.0001.  A double that stands for
\* a decimal lying exactly halfway between two multiples is itself a little above
\* or below the half (0.5*0.75*0.9*0.88*0.85 rounds to 0.2525, 0.3*1.05*0.85 to
\* 0.2677), so at an exact decimal tie the result is either neighbour.
RoundTo(x, unit) ==
    LET q == x \div unit
        r == x % unit
    IN  IF 2 * r < unit THEN {q * unit}
        ELSE IF 2 * r > unit THEN {(q + 1) * unit}
        ELSE {q * unit, (q + 1) * unit}

Round4(x) == RoundTo(x, Tick)

\* a / b rounded toward zero (b > 0): the fixed-point image of a float quotient
\* or product, symmetric in the sign of a.
Quot(a, b) == IF a >= 0 THEN a \div b ELSE -((-a) \div b)

-----------------------------------------------------------------------------
(* Bounds of the explored inputs. *)

\* The regressor's outputs explored: (k - RawNeg) / 10 for k in 0..RawMax.
RawMax == 14

\* Largest group_size explored (group sizes 1..MaxGroup).
MaxGroup == 4

\* Largest absolute attribution explored.
ShapMax == 3

RawNeg == 2

RawScores == {Dec(k - RawNeg, 10) : k \in 0..RawMax}

Modes == {"walking", "cycling", "driving", "transit"}

Profiles ==
    [mode : Modes, group_size : 1..MaxGroup, is_night : BOOLEAN,
     gender_sensitive : BOOLEAN]

\* lighting_score values on both sides of the rule-6 threshold (3.9, 4.0).
Lightings == {Dec(39, 10), Dec(4, 1)}

-----------------------------------------------------------------------------
(* The process state.  model, scaler and explainer are the module globals   *)
(* of engine.py, set once when the module is imported.  startup records     *)
(* what the import met.  call is the request being served (op = "idle"      *)
(* between requests), env what the loaded artifacts computed for it (the    *)
(* regressor's output, the attribution values), ret the response.           *)

(* locals holds the handler's local variables the response does not show   *)
(* (the resolved feature_dict; the score list and the unrounded aggregate   *)
(* of each route) as they are when the handler returns.                     *)

VARIABLES startup, model, scaler, explainer, call, env, locals, ret

vars == <<startup, model, scaler, explainer, call, env, locals, ret>>

-----------------------------------------------------------------------------
(* backend/personalization.py *)

MsgWalkingNight == "Walking at night reduces safety score."
MsgCyclingNight == "Cycling at night reduces safety score."
MsgDriving == "Driving generally increases safety."
MsgLargeGroup == "Large group size enhances safety."
MsgAloneNight == "Traveling alone at night reduces safety."
MsgLighting == "Gender sensitive profile penalty for poor lighting."
MsgIsolated == "Gender sensitive profile penalty for isolated areas."

\* Step with the message put first (insert(0, msg) for append(msg)).
Step_Prepend(st, cond, newScore, msg) ==
    IF cond THEN [score |-> newScore, msgs |-> <<msg>> \o st.msgs] ELSE st

\* A running state of apply_profile_weights: the score and the messages so far.
Step(st, cond, newScore, msg) ==
    IF cond THEN [score |-> newScore, msgs |-> Append(st.msgs, msg)] ELSE st

RuleWalkingNight(st, profile) ==
    Step(st, profile.mode = "walking" /\ profile.is_night,
         Times(st.score, 3, 4), MsgWalkingNight)

RuleCyclingNight(st, profile) ==
    Step(st, profile.mode = "cycling" /\ profile.is_night,
         Times(st.score, 17, 20), MsgCyclingNight)

\* RuleDriving without its cap (score *= 1.05).
RuleDriving_NoCap(st, profile) ==
    Step(st, profile.mode = "driving", Times(st.score, 21, 20), MsgDriving)

RuleDriving(st, profile) ==
    Step(st, profile.mode = "driving",
         MinOf(Times(st.score, 21, 20), ONE), MsgDriving)

RuleLargeGroup(st, profile) ==
    Step(st, profile.group_size >= 4,
         MinOf(st.score + Dec(8, 100), ONE), MsgLargeGroup)

RuleAloneNight(st, profile) ==
    Step(st, profile.group_size = 1 /\ profile.is_night,
         Times(st.score, 9, 10), MsgAloneNight)

RuleLighting(st, profile, features) ==
    Step(st, profile.gender_sensitive /\ features.lighting_score < Dec(4, 1),
         Times(st.score, 22, 25), MsgLighting)

RuleIsolated(st, profile, features) ==
    Step(st, profile.gender_sensitive /\ features.is_isolated = 1,
         Times(st.score, 17, 20), MsgIsolated)

\* Clip01 without the lower bound (min(score, 1.0)).
Clip01_NoFloor(score) == MinOf(score, ONE)

\* Clip final score to [0.0, 1.0].
Clip01(score) == MaxOf(0, MinOf(score, ONE))

\* The results apply_profile_weights can return (one, or two at a rounding tie).
apply_profile_weights(base_score, profile, features) ==
    LET s0 == [score |-> base_score, msgs |-> << >>]
        s1 == RuleWalkingNight(s0, profile)
        s2 == RuleCyclingNight(s1, profile)
        s3 == RuleDriving(s2, profile)
        s4 == RuleLargeGroup(s3, profile)
        s5 == RuleAloneNight(s4, profile)
        s6 == RuleLighting(s5, profile, features)
        s7 == RuleIsolated(s6, profile, features)
    IN  {[adjusted_score |-> a, adjustments_applied |-> s7.msgs] :
            a \in Round4(Clip01(s7.score))}

-----------------------------------------------------------------------------
(* Score bands: main.get_category_color, engine.predict, and the template  *)
(* selection of engine.get_shap_explanation.                               *)

get_category_color(score) ==
    IF score < Dec(4, 10) THEN <<"Low", "#ef4444">>
    ELSE IF score <= Dec(7, 10) THEN <<"Medium", "#f97316">>
    ELSE <<"High", "#22c55e">>

\* PredictCategory with the upper boundary excluded from Medium (score < 0.7).
PredictCategory_ExclusiveUpper(score) ==
    IF score < Dec(4, 10) THEN "Low"
    ELSE IF score < Dec(7, 10) THEN "Medium"
    ELSE "High"

\* The category branch of engine.predict.
PredictCategory(score) ==
    IF score < Dec(4, 10) THEN "Low"
    ELSE IF score <= Dec(7, 10) THEN "Medium"
    ELSE "High"

\* The explanation f-strings of get_shap_explanation, by score band; a formatted
\* string is the sequence of its pieces.
Explanation(safety_score, f1, f2) ==
    IF safety_score < Dec(4, 10)
    THEN <<"Safety concern: ", f1, " and ", f2, " are the main risk factors.">>
    ELSE IF safety_score <= Dec(7, 10)
    THEN <<"Moderate safety: Caution advised due to ", f1, ".">>
    ELSE <<"This area is relatively safe. ", f1, " contributes positively.">>

-----------------------------------------------------------------------------
(* backend/models.py *)

\* LocationFeatures(lat, lng, hour, day_of_week).dict(): the other fields take
\* their schema defaults.
LocationFeatures(lat, lng, hour, day_of_week) ==
    [lat |-> lat, lng |-> lng, hour |-> hour, day_of_week |-> day_of_week,
     lighting_score |-> Dec(5, 1), crowd_density |-> Dec(5, 10),
     historical_crime_index |-> Dec(3, 10), police_dist_km |-> Dec(15, 10),
     is_isolated |-> 0, near_transit |-> 0]

-----------------------------------------------------------------------------
(* backend/engine.py *)

\* The outcomes of the import-time try block: which load raised, if any.
LoadOutcomes == {"ok", "model_failed", "scaler_failed", "explainer_failed"}

\* LoadArtifacts with one try block per artifact: only the artifact whose load
\* raised is None.
LoadArtifacts_PerArtifact(outcome) ==
    [model |-> IF outcome = "model_failed" THEN "None" ELSE "loaded",
     scaler |-> IF outcome = "scaler_failed" THEN "None" ELSE "loaded",
     explainer |-> IF outcome = "explainer_failed" THEN "None" ELSE "loaded"]

\* The globals after the try/except: any exception leaves all three None.
LoadArtifacts(outcome) ==
    IF outcome = "ok"
    THEN [model |-> "loaded", scaler |-> "loaded", explainer |-> "loaded"]
    ELSE [model |-> "None", scaler |-> "None", explainer |-> "None"]

expected_cols ==
    <<"hour", "day_of_week", "lighting_score", "crowd_density",
      "historical_crime_index", "police_dist_km", "is_isolated", "near_transit">>

Cols == 1..Len(expected_cols)

feature_map(key) ==
    CASE key = "lighting_score" -> "street lighting"
      [] key = "historical_crime_index" -> "historical crime rate"
      [] key = "crowd_density" -> "crowd density"
      [] key = "police_dist_km" -> "distance from nearest police station"
      [] key = "is_isolated" -> "area isolation"
      [] key = "hour" -> "time of day"
      [] key = "near_transit" -> "proximity to transit hub"
      [] key = "day_of_week" -> "day of week"
      [] OTHER -> key

Abs(x) == IF x < 0 THEN -x ELSE x

\* The columns of S on which a is largest.
ArgMax(a, S) == {i \in S : \A j \in S : a[j] <= a[i]}

\* The columns of S on which a is smallest.
ArgMin(a, S) == {i \in S : \A j \in S : a[i] <= a[j]}

\* TopIndices taking the head of the ascending order (np.argsort(abs_shap)[:2]).
TopIndices_Smallest(abs_shap) ==
    UNION {{<<i1, i2>> : i2 \in ArgMin(abs_shap, Cols \ {i1})} :
           i1 \in ArgMin(abs_shap, Cols)}

\* np.argsort(abs_shap)[-2:][::-1].  The default sort kind is not stable, so
\* equal values may come out in any order: the last position of an ascending
\* order holds any column with the largest value, the one before it any column
\* with the largest value among the rest.
TopIndices(abs_shap) ==
    UNION {{<<i1, i2>> : i2 \in ArgMax(abs_shap, Cols \ {i1})} :
           i1 \in ArgMax(abs_shap, Cols)}

NotLoadedExplanation ==
    [raised |-> FALSE, explanation |-> <<"Model not loaded.">>,
     top_features |-> << >>]

\* The results get_shap_explanation can return, shap_values being what the
\* explainer computes for feature_dict.  Calling a method of None raises.
get_shap_explanation(feature_dict, safety_score, shap_values) ==
    IF explainer = "None" THEN {NotLoadedExplanation}
    ELSE IF scaler = "None"
    THEN {[raised |-> TRUE, explanation |-> << >>, top_features |-> << >>]}
    ELSE LET abs_shap == [i \in Cols |-> Abs(shap_values[i])]
         IN  {LET f1 == feature_map(expected_cols[t[1]])
                  f2 == feature_map(expected_cols[t[2]])
              IN  [raised |-> FALSE,
                   explanation |-> Explanation(safety_score, f1, f2),
                   top_features |-> <<f1, f2>>] : t \in TopIndices(abs_shap)}

get_recommendations(category) ==
    IF category = "Low"
    THEN <<"Avoid poorly lit streets when walking.",
           "Consider traveling with a larger group.",
           "Use transit options with safer hubs nearby.">>
    ELSE IF category = "Medium"
    THEN <<"Stay alert in less crowded areas.",
           "Keep emergency contacts readily accessible.">>
    ELSE <<"Standard positive precautions are sufficient.">>

\* predict(feature_dict), raw being what the regressor returns for it.
predict(feature_dict, raw) ==
    IF model = "None"
    THEN [raised |-> FALSE, score |-> Dec(5, 10), category |-> "Medium"]
    ELSE IF scaler = "None"
    THEN [raised |-> TRUE, score |-> 0, category |-> ""]
    ELSE [raised |-> FALSE, score |-> raw, category |-> PredictCategory(raw)]

-----------------------------------------------------------------------------
(* backend/main.py: POST /route.                                            *)
(* A coordinate of c degrees is the integer c * CoordOne; the unit normal   *)
(* and the sine are fixed-point numbers in thousandths.                     *)

CoordOne == 100 * 1000

Milli == 10 * 100

Deg(n, d) == (CoordOne * n) \div d

num_points == 5

route_profiles ==
    <<[name |-> "Safest", detour_val |-> Deg(1, 100)],
      [name |-> "Fastest", detour_val |-> 0],
      [name |-> "Comfortable", detour_val |-> -Deg(1, 100)]>>

RECURSIVE SqrtIn(_, _, _)
\* The largest r in lo..hi with r * r <= n.
SqrtIn(n, lo, hi) ==
    IF lo >= hi THEN lo
    ELSE LET mid == (lo + hi + 1) \div 2
         IN  IF mid * mid <= n THEN SqrtIn(n, mid, hi) ELSE SqrtIn(n, lo, mid - 1)

\* math.sqrt(dx*dx + dy*dy).
Dist(dx, dy) == SqrtIn(dx * dx + dy * dy, 0, Abs(dx) + Abs(dy))

\* a / b of two coordinates, in thousandths: Python raises ZeroDivisionError
\* when b is zero.
PyDiv(a, b) ==
    IF b = 0 THEN [raised |-> TRUE, value |-> 0]
    ELSE [raised |-> FALSE, value |-> Quot(a * Milli, b)]

\* Normal without the dist == 0 branch.
Normal_NoGuard(dx, dy) ==
    LET dist == Dist(dx, dy)
        qx == PyDiv(-dy, dist)
        qy == PyDiv(dx, dist)
    IN  [raised |-> qx.raised \/ qy.raised, nx |-> qx.value, ny |-> qy.value]

\* "Calculate orthogonal vector for bowing effect": nx, ny.
Normal(dx, dy) ==
    LET dist == Dist(dx, dy)
        qx == PyDiv(-dy, dist)
        qy == PyDiv(dx, dist)
    IN  IF dist = 0 THEN [raised |-> FALSE, nx |-> 0, ny |-> 0]
        ELSE [raised |-> qx.raised \/ qy.raised, nx |-> qx.value, ny |-> qy.value]

\* math.sin(frac * math.pi) for frac = i / (num_points - 1), in thousandths
\* (math.sin(math.pi) is 1.2e-16, zero at this and any coordinate precision).
SinFracPi(i) ==
    CASE i = 0 -> 0
      [] i = 1 -> 707
      [] i = 2 -> 1000
      [] i = 3 -> 707
      [] OTHER -> 0

\* Waypoint i (0-based) of the route with this detour.
Waypoint(origin, dest, detour, i) ==
    LET dx == dest.lng - origin.lng
        dy == dest.lat - origin.lat
        n == Normal(dx, dy)
        bow == Quot(SinFracPi(i) * detour, Milli)
    IN  [lat |-> origin.lat + Quot(dy * i, num_points - 1) + Quot(n.nx * bow, Milli),
         lng |-> origin.lng + Quot(dx * i, num_points - 1) + Quot(n.ny * bow, Milli)]

\* The list a function on 1..n stands for, computed once.
AsList(f) == SubSeq(f, 1, Cardinality(DOMAIN f))

Waypoints(origin, dest, detour) ==
    AsList([k \in 1..num_points |-> Waypoint(origin, dest, detour, k - 1)])

\* np.clip(x, lo, hi).
Clip(x, lo, hi) == MaxOf(lo, MinOf(x, hi))

\* The "deterministic dynamic features" of a waypoint.  seed1, seed2 and seed3
\* are sines and cosines of the coordinates times 500 to 1200: numbers in [-1, 1]
\* that the model takes as given, in tenths (site.seed1 = 4 is 0.4).
WaypointFeatures(base_loc, wp, site) ==
    [base_loc EXCEPT
        !.lat = wp.lat,
        !.lng = wp.lng,
        !.lighting_score = Clip(Dec(5, 1) + 5 * site.seed1 * (ONE \div 10), 0, Dec(10, 1)),
        !.crowd_density = Clip(Dec(5, 10) + 5 * site.seed2 * (ONE \div 100), 0, ONE),
        !.historical_crime_index =
            Clip(Dec(5, 10) + 5 * site.seed3 * (ONE \div 100), 0, ONE),
        !.police_dist_km =
            Clip(Dec(25, 10) + 25 * site.seed1 * site.seed2 * (ONE \div 1000), 0, Dec(5, 1)),
        !.is_isolated = IF site.seed2 > 5 THEN 1 ELSE 0,
        !.near_transit = IF site.seed3 > 5 THEN 1 ELSE 0]

RECURSIVE Choices(_)
\* The sequences that take their k-th element from the k-th set.
Choices(sets) ==
    IF sets = << >> THEN {<< >>}
    ELSE {<<h>> \o t : h \in Head(sets), t \in Choices(Tail(sets))}

RECURSIVE Sum(_)
Sum(seq) == IF seq = << >> THEN 0 ELSE Head(seq) + Sum(Tail(seq))

RECURSIVE Insert(_, _)
Insert(x, sorted) ==
    IF sorted = << >> THEN <<x>>
    ELSE IF x <= Head(sorted) THEN <<x>> \o sorted
    ELSE <<Head(sorted)>> \o Insert(x, Tail(sorted))

RECURSIVE Sorted(_)
\* sorted(seq): ascending.
Sorted(seq) == IF seq = << >> THEN << >> ELSE Insert(Head(seq), Sorted(Tail(seq)))

\* Aggregate with Safest averaging the three lowest scores (sorted(scores)[:3]).
Aggregate_LowestThree(name, scores) ==
    IF name = "Safest"
    THEN LET best_3 == SubSeq(Sorted(scores), 1, 3)
         IN  MinOf(Times(Quot(Sum(best_3), Len(best_3)), 21, 20), ONE)
    ELSE IF name = "Fastest"
    THEN Times(Quot(Sum(scores), Len(scores)), 22, 25)
    ELSE IF name = "Comfortable"
    THEN Times(Quot(Sum(scores), Len(scores)), 19, 20)
    ELSE Quot(Sum(scores), Len(scores))

\* Aggregate with the factors of Fastest and Comfortable exchanged.
Aggregate_SwappedFactors(name, scores) ==
    IF name = "Safest"
    THEN LET best_3 == SubSeq(Sorted(scores), 3, Len(scores))
         IN  MinOf(Times(Quot(Sum(best_3), Len(best_3)), 21, 20), ONE)
    ELSE IF name = "Fastest"
    THEN Times(Quot(Sum(scores), Len(scores)), 19, 20)
    ELSE IF name = "Comfortable"
    THEN Times(Quot(Sum(scores), Len(scores)), 22, 25)
    ELSE Quot(Sum(scores), Len(scores))

\* The per-route aggregate avg_score.
Aggregate(name, scores) ==
    IF name = "Safest"
    THEN LET best_3 == SubSeq(Sorted(scores), 3, Len(scores))
         IN  MinOf(Times(Quot(Sum(best_3), Len(best_3)), 21, 20), ONE)
    ELSE IF name = "Fastest"
    THEN Times(Quot(Sum(scores), Len(scores)), 22, 25)
    ELSE IF name = "Comfortable"
    THEN Times(Quot(Sum(scores), Len(scores)), 19, 20)
    ELSE Quot(Sum(scores), Len(scores))

RouteTemplate(name) ==
    IF name = "Safest"
    THEN "This route prioritises well-lit roads and avoids {risk_zone_count} high-risk zones. Safety score: {round(avg_score * 100)}%."
    ELSE IF name = "Fastest"
    THEN "Shortest path to destination. Passes through {risk_zone_count} caution zones. Safety score: {round(avg_score * 100)}%."
    ELSE IF name = "Comfortable"
    THEN "Balanced route avoiding major risk areas. {risk_zone_count} minor caution zones. Safety score: {round(avg_score * 100)}%."
    ELSE "Average safety score of {round(avg_score * 100)}% with {risk_zone_count} risky areas."

\* int((origin.lat + origin.lng + dest.lat + dest.lng) * 10000) % 15.
MinuteSeed(origin, dest) ==
    Quot(origin.lat + origin.lng + dest.lat + dest.lng, CoordOne \div 10000) % 15

EstimatedMinutes(name, origin, dest) ==
    15 + MinuteSeed(origin, dest)
       + (IF name = "Fastest" THEN 0 ELSE IF name = "Comfortable" THEN 2 ELSE 5)

\* The adjusted scores one waypoint can get (none when predict raises).
WaypointScores(f, profile, raw) ==
    LET p == predict(f, raw)
    IN  IF p.raised THEN {}
        ELSE {r.adjusted_score : r \in apply_profile_weights(p.score, profile, f)}

\* One pass of the loop over route_profiles: the entries it can append to
\* routes_response, each with the loop's scores and avg_score (none when the
\* pass raises).  sites[k] is what the seeds and the regressor give at waypoint k.
RouteEntries(rp, origin, dest, profile, base_loc, sites) ==
    LET waypoints == Waypoints(origin, dest, rp.detour_val)
        n == Normal(dest.lng - origin.lng, dest.lat - origin.lat)
        score_sets ==
            AsList([k \in 1..num_points |->
                WaypointScores(WaypointFeatures(base_loc, waypoints[k], sites[k]),
                               profile, sites[k].raw)])
    IN  IF n.raised THEN {} ELSE UNION {
            LET avg_score == Aggregate(rp.name, scores)
                cc == get_category_color(avg_score)
                risk_zone_count ==
                    Cardinality({k \in 1..num_points : scores[k] < Dec(4, 10)})
            IN  {[scores |-> scores,
                  avg_score |-> avg_score,
                  entry |->
                    [name |-> rp.name,
                     waypoints |-> waypoints,
                     avg_safety_score |-> avg4,
                     category |-> cc[1],
                     color_code |-> cc[2],
                     risk_zone_count |-> risk_zone_count,
                     estimated_minutes |-> EstimatedMinutes(rp.name, origin, dest),
                     explanation |->
                        [template |-> RouteTemplate(rp.name),
                         risk_zone_count |-> risk_zone_count,
                         percent |-> pct \div (ONE \div 100)]]] :
                 avg4 \in Round4(avg_score), pct \in RoundTo(avg_score, ONE \div 100)} :
            scores \in Choices(score_sets)}

-----------------------------------------------------------------------------
(* The inputs explored. *)

\* Attribution vectors: zero everywhere, but column p at hp and a later column q
\* at -hq.  They cover a unique top two (hp # hq, both positive), a tie for the
\* first place between an earlier and a later column (hp = hq) and a tie for the
\* second place among seven columns (hq = 0).
Spike(p, q, hp, hq) ==
    [i \in Cols |-> IF i = p THEN hp ELSE IF i = q THEN -hq ELSE 0]

ShapVectors ==
    UNION {{Spike(pq[1], pq[2], hp, hq) : hp \in 1..ShapMax, hq \in 0..ShapMax} :
           pq \in {x \in Cols \X Cols : x[1] < x[2]}}

\* The attribution vector explored inside /analyze: a tie for the first place
\* between lighting_score and the later historical_crime_index.
AnalyzeShapVectors == {Spike(3, 5, ShapMax, ShapMax)}

\* Scores on and around the band boundaries 0.4 and 0.7.
BandProbes ==
    {Dec(4, 10) - Tick, Dec(4, 10), Dec(4, 10) + Tick, Dec(55, 100),
     Dec(7, 10) - Tick, Dec(7, 10), Dec(7, 10) + Tick}

\* datetime.now(): hour and weekday.
Clock == {[hour |-> 22, weekday |-> 5]}

\* (hour, day_of_week) of a request: the sentinels, or explicit values.
RequestTimes == {[hour |-> -1, day_of_week |-> -1], [hour |-> 8, day_of_week |-> 3]}

\* Request locations: the time sentinels with every lighting and isolation,
\* and explicit times with the schema defaults.
Locations ==
    {[LocationFeatures(0, 0, -1, -1)
        EXCEPT !.lighting_score = l, !.is_isolated = i] :
        l \in Lightings, i \in {0, 1}}
    \cup {LocationFeatures(0, 0, t.hour, t.day_of_week) : t \in RequestTimes}

\* What the trigonometric seeds and the regressor give at a place: the three
\* seeds in tenths, and the regressor's output for the features derived from
\* them.  Distinct sites have distinct seeds, so that the regressor is a function
\* of the features.
SiteA == [seed1 |-> -4, seed2 |-> 0, seed3 |-> 0, raw |-> Dec(2, 10)]
SiteB == [seed1 |-> 4, seed2 |-> 0, seed3 |-> 0, raw |-> Dec(5, 10)]
SiteC == [seed1 |-> 4, seed2 |-> 8, seed3 |-> 0, raw |-> Dec(6, 10)]
SiteD == [seed1 |-> -4, seed2 |-> 8, seed3 |-> 0, raw |-> Dec(7, 10)]
SiteE == [seed1 |-> 4, seed2 |-> 0, seed3 |-> 8, raw |-> Dec(9, 10)]

\* The sites met along one route.
SiteVecs ==
    {<<SiteA, SiteB, SiteC, SiteD, SiteE>>,
     <<SiteA, SiteA, SiteA, SiteA, SiteE>>, <<SiteA, SiteE, SiteE, SiteE, SiteE>>,
     <<SiteE, SiteC, SiteD, SiteA, SiteB>>,
     <<SiteA, SiteA, SiteA, SiteA, SiteA>>, <<SiteB, SiteB, SiteB, SiteB, SiteB>>,
     <<SiteE, SiteE, SiteE, SiteE, SiteE>>}

RouteIds == 1..Len(route_profiles)

\* The assignments of sites to the waypoints of the three routes under which a
\* place has one site: waypoints with the same coordinates get the same seeds.
RouteWorlds(origin, dest) ==
    LET wps ==
            AsList([r \in RouteIds |->
                Waypoints(origin, dest, route_profiles[r].detour_val)])
    IN  {w \in [RouteIds -> SiteVecs] :
            \A r1 \in RouteIds, i \in 1..num_points :
                \A r2 \in r1..Len(route_profiles), j \in 1..num_points :
                    wps[r1][i] = wps[r2][j] => w[r1][i] = w[r2][j]}

Point(lat, lng) == [lat |-> lat, lng |-> lng]

Origins == {Point(Deg(129, 10), Deg(775, 10))}

\* destination - origin: none, along a meridian, along a parallel, oblique with
\* an integral length (0.03, 0.04), diagonal.
Deltas ==
    {Point(0, 0), Point(Deg(4, 100), 0), Point(0, Deg(4, 100)),
     Point(Deg(3, 100), Deg(4, 100)), Point(-Deg(4, 100), Deg(3, 100)),
     Point(Deg(4, 100), Deg(4, 100))}

\* UserProfile(mode, group_size, is_night, gender_sensitive).
UserProfile(mode, group_size, is_night, gender_sensitive) ==
    [mode |-> mode, group_size |-> group_size, is_night |-> is_night,
     gender_sensitive |-> gender_sensitive]

\* The profiles explored in /route: the schema defaults (no rule fires), a
\* gender-sensitive walk alone at night, a drive in a large group, a
\* gender-sensitive ride at night.
RouteProfiles ==
    {UserProfile("walking", 1, FALSE, FALSE), UserProfile("walking", 1, TRUE, TRUE),
     UserProfile("driving", MaxGroup, FALSE, FALSE), UserProfile("cycling", 2, TRUE, TRUE)}

Idle == [op |-> "idle"]

NoEnv == [raw |-> << >>, shap |-> << >>, sites |-> << >>]

NoLocals == [scores |-> << >>]

NoRet == [raised |-> FALSE]

\* What the regressor can return, when there is one to call.
RegressorOutputs == IF model = "None" \/ scaler = "None" THEN {<< >>} ELSE {<<r>> : r \in RawScores}

\* What the explainer can return, when there is one to call.
ExplainerOutputs(family) ==
    IF explainer = "None" \/ scaler = "None" THEN {<< >>} ELSE {<<v>> : v \in family}

First(seq, default) == IF seq = << >> THEN default ELSE seq[1]

-----------------------------------------------------------------------------
(* backend/main.py: GET /heatmap.                                           *)
(* np.linspace(start, stop, 10) divides stop - start by nine.  A heatmap    *)
(* coordinate of c degrees is the integer c * HeatOne, HeatOne a multiple   *)
(* of nine, so that the samples of a box given in 0.00001 degrees are       *)
(* integers.                                                                *)

LinspaceNum == 10

HeatOne == CoordOne * (LinspaceNum - 1)

\* n/d degrees, d a divisor of HeatOne.
HeatDeg(n, d) == (HeatOne \div d) * n

\* np.linspace with endpoint=False: num samples of step (stop - start) / num,
\* stop not among them.
linspace_NoEndpoint(start, stop, num) ==
    [k \in 1..num |-> start + (k - 1) * ((stop - start) \div num)]

\* np.linspace(start, stop, num), num > 1: start + k * step for k = 0..num-1,
\* step = (stop - start) / (num - 1), the last sample set to stop.
linspace(start, stop, num) ==
    [k \in 1..num |->
        IF k = num THEN stop ELSE start + (k - 1) * ((stop - start) \div (num - 1))]

\* The row handed to the scaler and the regressor with lat and lng appended.
ModelInput_WithCoordinates(feature_dict) ==
    [k \in Cols |-> feature_dict[expected_cols[k]]]
        \o <<feature_dict.lat, feature_dict.lng>>

\* pd.DataFrame([feature_dict])[expected_cols]: the row handed to the scaler
\* and the regressor.
ModelInput(feature_dict) == [k \in Cols |-> feature_dict[expected_cols[k]]]

\* The fitted scaler and regressor are one function of the row they are given.
\* Regressors is a family of such functions: g.slope = 0 is a constant one, the
\* others change their output when any entry of the row changes by a unit.
Regressors == {[base |-> b, slope |-> m] : b \in {0, RawNeg + 5, RawMax}, m \in {0, 1}}

\* float(model.predict(scaler.transform(X))[0]) for the regressor g.
Regress(g, X) ==
    Dec(((g.base + g.slope * (Sum(X) % (RawMax + 1))) % (RawMax + 1)) - RawNeg, 10)

\* The regressor called, when there is one to call.
HeatRegressors == IF model = "None" \/ scaler = "None" THEN {<< >>} ELSE {<<g>> : g \in Regressors}

\* The (lat, lng) pairs in the order the two loops visit them: the outer loop
\* over lats, the inner loop over lngs.
GridCells(lats, lngs) ==
    [n \in 1..(Len(lats) * Len(lngs)) |->
        [lat |-> lats[((n - 1) \div Len(lngs)) + 1],
         lng |-> lngs[((n - 1) % Len(lngs)) + 1]]]

\* f of a grid cell: base_loc.copy() with lat and lng set.
CellFeatures(base_loc, cell) == [base_loc EXCEPT !.lat = cell.lat, !.lng = cell.lng]

\* round(score, 4) is a function of score: one result for each score.
Roundings(scores) ==
    LET ties == {x \in scores : Cardinality(Round4(x)) > 1}
    IN  {[x \in scores |-> IF x \in ties THEN t[x] ELSE CHOOSE r \in Round4(x) : TRUE] :
            t \in {u \in [ties -> UNION {Round4(x) : x \in ties}] :
                        \A x \in ties : u[x] \in Round4(x)}}

\* The query strings of GET /heatmap: the box of the city (12.83, 13.14, 77.46,
\* 77.78), a box one step wide, a box of no height, a box with min_lat above
\* max_lat; hour absent (the sentinel) or given.
HeatBoxes ==
    {[min_lat |-> HeatDeg(1283, 100), max_lat |-> HeatDeg(1314, 100),
      min_lng |-> HeatDeg(7746, 100), max_lng |-> HeatDeg(7778, 100)],
     [min_lat |-> HeatDeg(129, 10), max_lat |-> HeatDeg(129, 10) + 9,
      min_lng |-> HeatDeg(775, 10), max_lng |-> HeatDeg(776, 10)],
     [min_lat |-> HeatDeg(129, 10), max_lat |-> HeatDeg(129, 10),
      min_lng |-> HeatDeg(775, 10), max_lng |-> HeatDeg(776, 10)],
     [min_lat |-> HeatDeg(13, 1), max_lat |-> HeatDeg(129, 10),
      min_lng |-> HeatDeg(775, 10), max_lng |-> HeatDeg(776, 10)]}

HeatHours == {-1, 8}

-----------------------------------------------------------------------------
(* The operations. *)

Init ==
    \E outcome \in LoadOutcomes :
        /\ startup = outcome
        /\ model = LoadArtifacts(outcome).model
        /\ scaler = LoadArtifacts(outcome).scaler
        /\ explainer = LoadArtifacts(outcome).explainer
        /\ call = Idle
        /\ env = NoEnv
        /\ locals = NoLocals
        /\ ret = NoRet

\* A direct call of engine.predict.
Predict ==
    /\ call.op = "idle"
    /\ \E f \in Locations, raw \in RegressorOutputs :
        /\ f.hour # -1
        /\ call' = [op |-> "predict", feature_dict |-> f]
        /\ env' = [raw |-> raw, shap |-> << >>, sites |-> << >>]
        /\ locals' = NoLocals
        /\ ret' = predict(f, First(raw, 0))
    /\ UNCHANGED <<startup, model, scaler, explainer>>

\* A direct call of engine.get_shap_explanation.
GetShapExplanation ==
    /\ call.op = "idle"
    /\ \E score \in BandProbes, shap \in ExplainerOutputs(ShapVectors) :
        LET f == LocationFeatures(0, 0, 8, 3)
        IN  /\ call' = [op |-> "get_shap_explanation", feature_dict |-> f,
                        safety_score |-> score]
            /\ env' = [raw |-> << >>, shap |-> shap, sites |-> << >>]
            /\ locals' = NoLocals
            /\ ret' \in get_shap_explanation(f, score, First(shap, << >>))
    /\ UNCHANGED <<startup, model, scaler, explainer>>

\* The sentinel resolution of /analyze.
ResolveTime(location, now) ==
    [location EXCEPT
        !.hour = IF @ = -1 THEN now.hour ELSE @,
        !.day_of_week = IF @ = -1 THEN now.weekday ELSE @]

\* The responses of POST /analyze.
AnalyzeResponses(request, now, raw, shap) ==
    LET feature_dict == ResolveTime(request.location, now)
        p == predict(feature_dict, First(raw, 0))
    IN  IF p.raised THEN {[raised |-> TRUE]}
        ELSE UNION {
            LET cc == get_category_color(pers.adjusted_score)
            IN  {IF shap_res.raised THEN [raised |-> TRUE]
                 ELSE [raised |-> FALSE,
                       safety_score |-> base4,
                       adjusted_score |-> pers.adjusted_score,
                       category |-> cc[1],
                       color_code |-> cc[2],
                       explanation |-> shap_res.explanation,
                       top_features |-> shap_res.top_features,
                       recommendations |-> get_recommendations(cc[1]),
                       adjustments_applied |-> pers.adjustments_applied] :
                 shap_res \in get_shap_explanation(feature_dict, pers.adjusted_score,
                                                   First(shap, << >>)),
                 base4 \in Round4(p.score)} :
            pers \in apply_profile_weights(p.score, request.profile, feature_dict)}

Analyze ==
    /\ call.op = "idle"
    /\ \E location \in Locations, profile \in Profiles, now \in Clock,
          raw \in RegressorOutputs, shap \in ExplainerOutputs(AnalyzeShapVectors) :
        /\ call' = [op |-> "analyze", location |-> location, profile |-> profile,
                    now |-> now]
        /\ env' = [raw |-> raw, shap |-> shap, sites |-> << >>]
        /\ locals' = [scores |-> << >>,
                      feature_dict |-> ResolveTime(location, now),
                      base_score |-> predict(ResolveTime(location, now),
                                             First(raw, 0)).score]
        /\ ret' \in AnalyzeResponses([location |-> location, profile |-> profile],
                                      now, raw, shap)
    /\ UNCHANGED <<startup, model, scaler, explainer>>

\* POST /route.
Route ==
    /\ call.op = "idle"
    /\ \E origin \in Origins, delta \in Deltas :
        LET dest == Point(origin.lat + delta.lat, origin.lng + delta.lng)
        IN  \E w \in RouteWorlds(origin, dest), profile \in RouteProfiles, now \in Clock :
            LET base_loc == LocationFeatures(0, 0, now.hour, now.weekday)
                entries ==
                    AsList([r \in RouteIds |->
                        RouteEntries(route_profiles[r], origin, dest, profile,
                                     base_loc, w[r])])
            IN  /\ call' = [op |-> "route", origin |-> origin, destination |-> dest,
                            profile |-> profile, now |-> now]
                /\ env' = [raw |-> IF model = "None" \/ scaler = "None" THEN << >>
                                   ELSE [k \in 1..(3 * num_points) |->
                                            w[((k - 1) \div num_points) + 1]
                                             [((k - 1) % num_points) + 1].raw],
                           shap |-> << >>, sites |-> w]
                /\ IF \E r \in RouteIds : entries[r] = {}
                   THEN /\ ret' = [raised |-> TRUE]
                        /\ locals' = NoLocals
                   ELSE \E e \in Choices(entries) :
                        /\ ret' = [raised |-> FALSE,
                                   routes |-> [r \in RouteIds |-> e[r].entry],
                                   recommended |-> "Safest"]
                        /\ locals' = [scores |-> [r \in RouteIds |-> e[r].scores],
                                      avg_score |-> [r \in RouteIds |-> e[r].avg_score]]
    /\ UNCHANGED <<startup, model, scaler, explainer>>

\* The responses of GET /heatmap for the regressor g (<< >> if none is called),
\* with the locals of the handler.
HeatmapResponses(box, hour, now, g) ==
    LET resolved == IF hour = -1 THEN now.hour ELSE hour
        base_loc == LocationFeatures(0, 0, resolved, now.weekday)
    IN  UNION {UNION {UNION {
            IF \E n \in 1..Len(cells) : results[n].raised
            THEN {[ret |-> [raised |-> TRUE], locals |-> NoLocals]}
            ELSE {[ret |-> [raised |-> FALSE,
                            points |-> [n \in 1..Len(cells) |->
                                [lat |-> cells[n].lat,
                                 lng |-> cells[n].lng,
                                 safety_score |-> rnd[results[n].score],
                                 color_code |-> get_category_color(results[n].score)[2]]],
                            count |-> Len(cells)],
                   locals |-> [scores |-> [n \in 1..Len(cells) |-> results[n].score],
                               lats |-> grid.lats, lngs |-> grid.lngs,
                               features |-> [n \in 1..Len(cells) |->
                                                CellFeatures(base_loc, cells[n])]]] :
                  rnd \in Roundings({results[n].score : n \in 1..Len(cells)})} :
            results \in {AsList([n \in 1..Len(cells) |->
                            predict(CellFeatures(base_loc, cells[n]),
                                    IF g = << >> THEN 0
                                    ELSE Regress(g[1],
                                            ModelInput(CellFeatures(base_loc, cells[n]))))])}} :
            cells \in {AsList(GridCells(grid.lats, grid.lngs))}} :
            grid \in {[lats |-> AsList(linspace(box.min_lat, box.max_lat, LinspaceNum)),
                       lngs |-> AsList(linspace(box.min_lng, box.max_lng, LinspaceNum))]}}

\* GET /heatmap.
Heatmap ==
    /\ call.op = "idle"
    /\ \E box \in HeatBoxes, hour \in HeatHours, now \in Clock, g \in HeatRegressors :
        /\ call' = [op |-> "heatmap", box |-> box, hour |-> hour, now |-> now]
        /\ env' = [raw |-> << >>, shap |-> << >>, sites |-> << >>, regressor |-> g]
        /\ \E res \in HeatmapResponses(box, hour, now, g) :
            /\ ret' = res.ret
            /\ locals' = res.locals
    /\ UNCHANGED <<startup, model, scaler, explainer>>

\* The response is sent; nothing of the request is kept.
Return ==
    /\ call.op # "idle"
    /\ call' = Idle
    /\ env' = NoEnv
    /\ locals' = NoLocals
    /\ ret' = NoRet
    /\ UNCHANGED <<startup, model, scaler, explainer>>

Next == Predict \/ GetShapExplanation \/ Analyze \/ Route \/ Heatmap \/ Return

Spec == Init /\ [][Next]_vars

-----------------------------------------------------------------------------
(* Properties of the personalization engine.                                *)

\* The responses that carry a result of apply_profile_weights: /analyze.
Personalized == call.op = "analyze" /\ ~ret.raised

\* C1: whatever the raw score (below 0 and above 1 included), the profile and
\* the features, the adjusted_score returned by apply_profile_weights lies in
\* [0, 1]: in /analyze responses and in every waypoint score of /route.
C1_AdjustedScoreInUnitInterval ==
    /\ Personalized => ret.adjusted_score >= 0 /\ ret.adjusted_score <= ONE
    /\ call.op = "route" /\ ~ret.raised =>
        \A r \in RouteIds : \A k \in 1..num_points :
            locals.scores[r][k] >= 0 /\ locals.scores[r][k] <= ONE

\* A raw score below 0 was adjusted (rule 1 fired) and clamped to 0.
C1_Witness ==
    /\ Personalized
    /\ locals.base_score < 0
    /\ call.profile.mode = "walking" /\ call.profile.is_night
    /\ ret.adjusted_score = 0

\* The condition of rule k (1..7), as the rules are documented.
RuleFires(k, profile, features) ==
    CASE k = 1 -> profile.mode = "walking" /\ profile.is_night
      [] k = 2 -> profile.mode = "cycling" /\ profile.is_night
      [] k = 3 -> profile.mode = "driving"
      [] k = 4 -> profile.group_size >= 4
      [] k = 5 -> profile.group_size = 1 /\ profile.is_night
      [] k = 6 -> profile.gender_sensitive /\ features.lighting_score < Dec(4, 1)
      [] k = 7 -> profile.gender_sensitive /\ features.is_isolated = 1

RuleMessages ==
    <<MsgWalkingNight, MsgCyclingNight, MsgDriving, MsgLargeGroup, MsgAloneNight,
      MsgLighting, MsgIsolated>>

RECURSIVE MessagesFrom(_, _, _)
\* The messages of the rules k..7 that fire, in rule order.
MessagesFrom(k, profile, features) ==
    IF k > Len(RuleMessages) THEN << >>
    ELSE (IF RuleFires(k, profile, features) THEN <<RuleMessages[k]>> ELSE << >>)
         \o MessagesFrom(k + 1, profile, features)

\* C2: adjustments_applied holds exactly one message per rule that fires and
\* none of a rule that does not, in rule order 1..7.
C2_AdjustmentsInRuleOrder ==
    Personalized =>
        ret.adjustments_applied = MessagesFrom(1, call.profile, locals.feature_dict)

\* A profile firing exactly rules 1, 5 and 6 got [msg1, msg5, msg6].
C2_Witness ==
    /\ Personalized
    /\ {k \in 1..7 : RuleFires(k, call.profile, locals.feature_dict)} = {1, 5, 6}
    /\ ret.adjustments_applied = <<MsgWalkingNight, MsgAloneNight, MsgLighting>>

\* The effect of rule k on the running score.
RuleEffect(k, score) ==
    CASE k = 1 -> Times(score, 75, 100)
      [] k = 2 -> Times(score, 85, 100)
      [] k = 3 -> MinOf(Times(score, 105, 100), ONE)
      [] k = 4 -> MinOf(score + Dec(8, 100), ONE)
      [] k = 5 -> Times(score, 90, 100)
      [] k = 6 -> Times(score, 88, 100)
      [] k = 7 -> Times(score, 85, 100)

RECURSIVE RunRules(_, _, _, _)
\* The running score after the rules k..7, applied in order to score.
RunRules(k, score, profile, features) ==
    IF k > 7 THEN score
    ELSE RunRules(k + 1,
                  IF RuleFires(k, profile, features) THEN RuleEffect(k, score) ELSE score,
                  profile, features)

\* C3: adjusted_score is the raw score run through the rules 1..7 in order, each
\* acting on the running score (the caps of rules 3 and 4 before the later
\* factors), then clamped to [0, 1] and rounded to four decimals.
C3_CompoundInOrder ==
    Personalized =>
        LET run == RunRules(1, locals.base_score, call.profile, locals.feature_dict)
            clamped == IF run < 0 THEN 0 ELSE IF run > ONE THEN ONE ELSE run
        IN  /\ ret.adjusted_score % Tick = 0
            /\ 2 * Abs(ret.adjusted_score - clamped) <= Tick

\* Driving with raw score 1.0: rule 3 caps 1.05 at 1.0, then rule 6 gives 0.88
\* (combining the factors first would give 0.924).
C3_Witness ==
    /\ Personalized
    /\ locals.base_score = ONE
    /\ {k \in 1..7 : RuleFires(k, call.profile, locals.feature_dict)} = {3, 6}
    /\ ret.adjusted_score = Dec(88, 100)

-----------------------------------------------------------------------------
(* Properties of the engine.                                                *)

LoadFailed == startup # "ok"

DegradedResponses ==
    /\ model = "None" /\ scaler = "None" /\ explainer = "None"
    /\ call.op = "predict" =>
        ~ret.raised /\ ret.score = Dec(5, 10) /\ ret.category = "Medium"
    /\ call.op = "get_shap_explanation" =>
        /\ ~ret.raised
        /\ ret.explanation = <<"Model not loaded.">>
        /\ ret.top_features = << >>
    /\ call.op \in {"analyze", "route", "heatmap"} => ~ret.raised

\* C4: once a load has failed at import, every request at any later time is
\* served in degraded mode (predict gives (0.5, "Medium"), get_shap_explanation
\* the "Model not loaded." result, nothing raises), and no request changes
\* whether the artifacts are loaded.
C4_DegradedModeIsPermanent ==
    /\ [](LoadFailed => DegradedResponses)
    /\ [][<<model, scaler, explainer>>' = <<model, scaler, explainer>>]_vars

\* A failed scaler load, and get_shap_explanation answering "Model not loaded.".
C4_Witness ==
    /\ startup = "scaler_failed"
    /\ call.op = "get_shap_explanation"
    /\ ret = NotLoadedExplanation

\* The responses that carry top_features computed by the explainer.
Explained ==
    /\ call.op \in {"get_shap_explanation", "analyze"}
    /\ ~ret.raised
    /\ explainer # "None"

ShapOf(i) == Abs(env.shap[1][i])

DisplayName(i) == feature_map(expected_cols[i])

\* Column i comes before column j in a stable descending sort by absolute value.
RanksBefore(i, j) == ShapOf(i) > ShapOf(j) \/ (ShapOf(i) = ShapOf(j) /\ i < j)

\* C5 as claimed: top_features are the first two columns of the stable
\* descending order, a tie going to the earlier field.
C5_TiesToEarlierField ==
    Explained =>
        \E i \in Cols, j \in Cols :
            /\ \A k \in Cols \ {i} : RanksBefore(i, k)
            /\ \A k \in Cols \ {i, j} : RanksBefore(j, k)
            /\ RanksBefore(i, j)
            /\ ret.top_features = <<DisplayName(i), DisplayName(j)>>

\* C5 as amended: top_features are two distinct features, the larger absolute
\* contribution first, no other feature having a larger absolute contribution
\* than the second; among tied features no order is guaranteed.
C5_TopTwoByMagnitude ==
    Explained =>
        \E i \in Cols, j \in Cols :
            /\ i # j
            /\ ret.top_features = <<DisplayName(i), DisplayName(j)>>
            /\ ShapOf(i) >= ShapOf(j)
            /\ \A k \in Cols \ {i, j} : ShapOf(j) >= ShapOf(k)

\* Two columns tie for the first place and the later one is listed first.
C5_Witness ==
    /\ Explained
    /\ \E i \in Cols, j \in Cols :
        /\ i < j
        /\ ShapOf(i) = ShapOf(j)
        /\ \A k \in Cols : ShapOf(k) <= ShapOf(i)
        /\ ret.top_features = <<DisplayName(j), DisplayName(i)>>

-----------------------------------------------------------------------------
(* Properties of route synthesis and aggregation.                           *)

Routed == call.op = "route" /\ ~ret.raised

\* The straight-line interpolation point origin + (i/4) * (destination - origin).
Interpolated(i) ==
    Point(call.origin.lat + Quot((call.destination.lat - call.origin.lat) * i, 4),
          call.origin.lng + Quot((call.destination.lng - call.origin.lng) * i, 4))

\* The (lat, lng) displacement of waypoint k of route r from its interpolation
\* point, dotted with (dest.lat - origin.lat, dest.lng - origin.lng).
OffsetDotDirection(r, k) ==
    LET wp == ret.routes[r].waypoints[k]
        ip == Interpolated(k - 1)
    IN  (wp.lat - ip.lat) * (call.destination.lat - call.origin.lat)
        + (wp.lng - ip.lng) * (call.destination.lng - call.origin.lng)

\* C6: for origin # destination, every waypoint's displacement from its
\* interpolation point is perpendicular to the origin -> destination direction.
C6_OffsetIsPerpendicular ==
    Routed /\ call.origin # call.destination =>
        \A r \in RouteIds : \A k \in 1..num_points : OffsetDotDirection(r, k) = 0

\* C7: when origin = destination, or for the route whose detour is 0 (Fastest),
\* waypoint i is exactly the interpolation point; with origin = destination all
\* waypoints of every route are the origin; and /route never fails on a division
\* by zero.
C7_NoOffsetMeansStraightLine ==
    call.op = "route" =>
        /\ ~ret.raised
        /\ \A r \in RouteIds : \A k \in 1..num_points :
            /\ (call.origin = call.destination \/ ret.routes[r].name = "Fastest")
                => ret.routes[r].waypoints[k] = Interpolated(k - 1)
            /\ call.origin = call.destination
                => ret.routes[r].waypoints[k] = call.origin

\* /route answered a request with origin = destination: fifteen waypoints, all
\* the origin.
C7_Witness ==
    /\ Routed
    /\ call.origin = call.destination
    /\ \A r \in RouteIds :
        /\ Len(ret.routes[r].waypoints) = 5
        /\ \A k \in 1..5 : ret.routes[r].waypoints[k] = call.origin

\* The largest sum of three of the scores.
TopThreeSum(scores) ==
    LET sums == {scores[t[1]] + scores[t[2]] + scores[t[3]] :
                    t \in {x \in (1..5) \X (1..5) \X (1..5) : x[1] < x[2] /\ x[2] < x[3]}}
    IN  CHOOSE m \in sums : \A x \in sums : x <= m

\* Safest is min(mean of the three highest scores * 1.05, 1.0).
SafestIsCappedTopThreeMean ==
    Routed =>
        \A r \in RouteIds :
            ret.routes[r].name = "Safest" =>
                locals.avg_score[r] =
                    MinOf(Times(Quot(TopThreeSum(locals.scores[r]), 3), 105, 100), ONE)

ExampleScores == <<Dec(2, 10), Dec(5, 10), Dec(6, 10), Dec(7, 10), Dec(9, 10)>>

SafestOfExampleIs(value) ==
    Routed =>
        \A r \in RouteIds :
            ret.routes[r].name = "Safest" /\ locals.scores[r] = ExampleScores =>
                locals.avg_score[r] = value

\* C8 as claimed: Safest is min(mean of the three highest * 1.05, 1.0), and for
\* the scores [0.2, 0.5, 0.6, 0.7, 0.9] it is 0.777.
C8_SafestExampleIs0777 ==
    SafestIsCappedTopThreeMean /\ SafestOfExampleIs(7770 * Tick)

\* C8 as amended: Safest is min(mean of the three highest * 1.05, 1.0), and for
\* the scores [0.2, 0.5, 0.6, 0.7, 0.9] it is 0.77.
C8_SafestExampleIs077 ==
    SafestIsCappedTopThreeMean /\ SafestOfExampleIs(Dec(77, 100))

\* The Safest route met the scores [0.2, 0.5, 0.6, 0.7, 0.9].
C8_Witness ==
    /\ Routed
    /\ ret.routes[1].name = "Safest"
    /\ locals.scores[1] = ExampleScores
    /\ ret.routes[1].avg_safety_score = Dec(77, 100)

\* The three formulas applied to one sequence invert the order.
Inverted(scores) ==
    \/ Aggregate("Safest", scores) < Aggregate("Comfortable", scores)
    \/ Aggregate("Comfortable", scores) < Aggregate("Fastest", scores)

\* Number of steps of the score grid of C9_SomeSequenceInverts.
GridSteps == 4

\* The score lists of the routes of the current response.
ScoreLists == IF Routed THEN {locals.scores[r] : r \in RouteIds} ELSE {}

\* The sequences of five scores k / GridSteps.
GridSequences ==
    {AsList(f) : f \in [1..num_points -> {Dec(k, GridSteps) : k \in 0..GridSteps}]}

\* C9 as claimed: some sequence of five scores in [0, 1] (one on the grid, or one
\* met by the current request) inverts the order when the three formulas are
\* applied to it.
C9_SomeSequenceInverts ==
    \E scores \in GridSequences \cup ScoreLists : Inverted(scores)

RouteIndex(name) == CHOOSE r \in RouteIds : route_profiles[r].name = name

\* C9 as amended: applied to one sequence, the three formulas never invert the
\* order; the aggregates of the three routes of a response can be out of order
\* only because the routes have different waypoint scores.
C9_InversionNeedsDifferentScores ==
    Routed =>
        /\ \A r \in RouteIds : ~Inverted(locals.scores[r])
        /\ LET sa == RouteIndex("Safest")
               co == RouteIndex("Comfortable")
               fa == RouteIndex("Fastest")
           IN  /\ locals.avg_score[sa] < locals.avg_score[co]
                    => locals.scores[sa] # locals.scores[co]
               /\ locals.avg_score[co] < locals.avg_score[fa]
                    => locals.scores[co] # locals.scores[fa]

\* A response whose Safest aggregate is below its Comfortable aggregate.
C9_Witness ==
    /\ Routed
    /\ locals.avg_score[RouteIndex("Safest")] < locals.avg_score[RouteIndex("Comfortable")]
    /\ ret.routes[RouteIndex("Safest")].avg_safety_score
         < ret.routes[RouteIndex("Comfortable")].avg_safety_score

-----------------------------------------------------------------------------
(* Score bands.                                                             *)

IsLow(score) == score < Dec(4, 10)

IsMedium(score) == Dec(4, 10) <= score /\ score <= Dec(7, 10)

IsHigh(score) == score > Dec(7, 10)

\* The band of a score: category, color, first words of the explanation.
Band(score) ==
    CASE IsLow(score) -> <<"Low", "#ef4444", "Safety concern: ">>
      [] IsMedium(score) -> <<"Medium", "#f97316", "Moderate safety: Caution advised due to ">>
      [] IsHigh(score) -> <<"High", "#22c55e", "This area is relatively safe. ">>

\* The scores that the current request turned into a band.
BandedScores ==
    IF ret.raised THEN {}
    ELSE CASE call.op = "predict" -> {ret.score}
           [] call.op = "get_shap_explanation" -> {call.safety_score}
           [] call.op = "analyze" -> {ret.adjusted_score, locals.base_score}
           [] call.op = "route" -> {locals.avg_score[r] : r \in RouteIds}
           [] OTHER -> {}

\* C10: Low below 0.4, Medium from 0.4 to 0.7 inclusive, High above 0.7; every
\* score is in exactly one band; get_category_color, predict and the explanation
\* templates agree on it; the category, the color and the template of a response
\* are those of the band of its score.
C10_OneBandEverywhere ==
    /\ \A x \in BandedScores :
        /\ Cardinality({b \in {"L", "M", "H"} :
                            \/ b = "L" /\ IsLow(x)
                            \/ b = "M" /\ IsMedium(x)
                            \/ b = "H" /\ IsHigh(x)}) = 1
        /\ get_category_color(x) = <<Band(x)[1], Band(x)[2]>>
        /\ PredictCategory(x) = Band(x)[1]
        /\ Explanation(x, "f1", "f2")[1] = Band(x)[3]
    /\ call.op = "predict" /\ ~ret.raised => ret.category = Band(ret.score)[1]
    /\ call.op = "get_shap_explanation" /\ ~ret.raised /\ explainer # "None" =>
        ret.explanation[1] = Band(call.safety_score)[3]
    /\ call.op = "analyze" /\ ~ret.raised =>
        /\ ret.category = Band(ret.adjusted_score)[1]
        /\ ret.color_code = Band(ret.adjusted_score)[2]
        /\ explainer # "None" => ret.explanation[1] = Band(ret.adjusted_score)[3]
    /\ call.op = "route" /\ ~ret.raised =>
        \A r \in RouteIds :
            /\ ret.routes[r].category = Band(locals.avg_score[r])[1]
            /\ ret.routes[r].color_code = Band(locals.avg_score[r])[2]

\* An /analyze response whose adjusted_score is exactly 0.7: Medium, orange,
\* the "Moderate safety" template.
C10_Witness ==
    /\ call.op = "analyze" /\ ~ret.raised /\ explainer # "None"
    /\ ret.adjusted_score = Dec(7, 10)
    /\ ret.category = "Medium"
    /\ ret.color_code = "#f97316"
    /\ ret.explanation[1] = "Moderate safety: Caution advised due to "


-----------------------------------------------------------------------------
(* Properties of the grid sampler.                                          *)

\* The /heatmap responses.
Heatmapped == call.op = "heatmap" /\ ~ret.raised

ProperBox(box) == box.min_lat < box.max_lat /\ box.min_lng < box.max_lng

CityBox ==
    [min_lat |-> HeatDeg(1283, 100), max_lat |-> HeatDeg(1314, 100),
     min_lng |-> HeatDeg(7746, 100), max_lng |-> HeatDeg(7778, 100)]

\* C11: for a box with min_lat < max_lat and min_lng < max_lng, /heatmap returns
\* exactly 100 points and count = 100; the points are a 10 x 10 grid in
\* row-major order: point 10*r + c has the latitude min_lat + r * (max_lat -
\* min_lat) / 9 and the longitude min_lng + c * (max_lng - min_lng) / 9; the
\* first point is (min_lat, min_lng) and the last (max_lat, max_lng); for the
\* box (12.83, 13.14, 77.46, 77.78) these are (12.83, 77.46) and (13.14, 77.78).
C11_GridIsRowMajorTenByTen ==
    Heatmapped /\ ProperBox(call.box) =>
        /\ Len(ret.points) = 100
        /\ ret.count = 100
        /\ \A r \in 0..9 : \A c \in 0..9 :
            /\ 9 * (ret.points[10 * r + c + 1].lat - call.box.min_lat)
                 = r * (call.box.max_lat - call.box.min_lat)
            /\ 9 * (ret.points[10 * r + c + 1].lng - call.box.min_lng)
                 = c * (call.box.max_lng - call.box.min_lng)
        /\ ret.points[1].lat = call.box.min_lat
        /\ ret.points[1].lng = call.box.min_lng
        /\ ret.points[100].lat = call.box.max_lat
        /\ ret.points[100].lng = call.box.max_lng
        /\ call.box = CityBox =>
            /\ ret.points[1].lat = HeatDeg(1283, 100)
            /\ ret.points[1].lng = HeatDeg(7746, 100)
            /\ ret.points[100].lat = HeatDeg(1314, 100)
            /\ ret.points[100].lng = HeatDeg(7778, 100)

\* The heatmap of the box (12.83, 13.14, 77.46, 77.78): its second row starts
\* at point 11, one ninth of the way up and back at the west edge.
C11_Witness ==
    /\ Heatmapped
    /\ call.box = CityBox
    /\ ret.count = 100
    /\ ret.points[11].lat > ret.points[10].lat
    /\ ret.points[11].lng = HeatDeg(7746, 100)
    /\ ret.points[10].lng = HeatDeg(7778, 100)

\* C12: within one /heatmap response, whatever the box, all points carry the
\* same safety_score and the same color_code: every point is scored with the
\* same eight model-facing values (the schema defaults, the resolved hour, the
\* current weekday), and the feature dicts of two points differ in lat and lng
\* only.
C12_OneScoreForAllPoints ==
    Heatmapped =>
        LET base == LocationFeatures(0, 0,
                        IF call.hour = -1 THEN call.now.hour ELSE call.hour,
                        call.now.weekday)
        IN  /\ \A n \in 1..Len(ret.points) :
                /\ ret.points[n].safety_score = ret.points[1].safety_score
                /\ ret.points[n].color_code = ret.points[1].color_code
                /\ locals.scores[n] = locals.scores[1]
                /\ \A k \in Cols :
                    locals.features[n][expected_cols[k]] = base[expected_cols[k]]
                /\ [locals.features[n] EXCEPT !.lat = 0, !.lng = 0] = base

\* A heatmap of a proper box scored by a regressor that is sensitive to every
\* entry of its row: the first and the last point differ in lat and lng and
\* carry the same score.
C12_Witness ==
    /\ Heatmapped
    /\ ProperBox(call.box)
    /\ env.regressor # << >>
    /\ env.regressor[1].slope # 0
    /\ ret.points[1].lat # ret.points[100].lat
    /\ ret.points[1].lng # ret.points[100].lng
    /\ ret.points[1].safety_score = ret.points[100].safety_score
    /\ call.hour = -1
    /\ locals.features[100].hour = call.now.hour

=============================================================================
